---------------------------- MODULE Spec2Model ----------------------------
(***************************************************************************)
(* HOS trip planner (RouteService.generate_hos_compliant_plan) and ELD log *)
(* generator (ELDLogGenerator.generate_daily_logs) of spotter-backend.     *)
(*                                                                         *)
(* Numbers.  Python floats are modelled by exact arithmetic:               *)
(*   - hours are counted in ticks, TicksPerMinute ticks to the minute;     *)
(*   - miles are exact rationals [n |-> numerator, d |-> denominator > 0], *)
(*     kept in lowest terms.                                               *)
(* A 'HH:MM' string is modelled by the minute of the day it denotes        *)
(* (0..1439): formatting drops the date and the seconds.                   *)
(***************************************************************************)
EXTENDS Integers, Sequences, FiniteSets, TLC

(***************************************************************************)
(* Bounds of the model.                                                    *)
(***************************************************************************)
TicksPerMinute == 4
MaxHours == 12
MaxDistSteps == 12
MaxDirectDays == 2
ClockStepsPerDay == 2
MaxClock == 3
MaxGridEvents == 3
MaxTrips == 2

TicksPerHour == 60 * TicksPerMinute
MinutesPerDay == 24 * 60

(***************************************************************************)
(* Exact rational arithmetic for mileages.                                 *)
(***************************************************************************)
Abs(x) == IF x < 0 THEN -x ELSE x

Min(a, b) == IF a <= b THEN a ELSE b

RECURSIVE GCD(_, _)
GCD(a, b) == IF b = 0 THEN a ELSE GCD(b, a % b)

\* n/d in lowest terms with a positive denominator (d # 0)
Norm(n, d) ==
    LET g == GCD(Abs(n), Abs(d))
        s == IF d < 0 THEN -1 ELSE 1
    IN  [n |-> s * (n \div g), d |-> s * (d \div g)]

Rat(k) == [n |-> k, d |-> 1]

LCM(a, b) == (a \div GCD(a, b)) * b

RAdd(a, b) ==
    LET l == LCM(a.d, b.d)
    IN  Norm(a.n * (l \div a.d) + b.n * (l \div b.d), l)

RNeg(a) == [n |-> -a.n, d |-> a.d]

RSub(a, b) == RAdd(a, RNeg(b))

\* a * p / q for integers p, q with q # 0
RScale(a, p, q) ==
    LET g1 == GCD(Abs(a.n), Abs(q))
        g2 == GCD(Abs(p), a.d)
    IN  Norm((a.n \div g1) * (p \div g2), (a.d \div g2) * (q \div g1))

\* a / b for b # 0
RDiv(a, b) == RScale(a, b.d, b.n)

RLe(a, b) ==
    LET l == LCM(a.d, b.d)
    IN  a.n * (l \div a.d) <= b.n * (l \div b.d)

RLt(a, b) == ~RLe(b, a)

\* math.floor(a / k) for an integer k > 0
RFloorDiv(a, k) == a.n \div (a.d * k)

\* int(a): truncation toward zero
RTrunc(a) == IF a.n >= 0 THEN a.n \div a.d ELSE -((-a.n) \div a.d)

\* math.ceil(x / k) for integers x and k > 0
CeilDiv(x, k) == -((-x) \div k)

(***************************************************************************)
(* HOS rules of the planner, route_service.py lines 202-206.               *)
(***************************************************************************)
max_driving_daily == 11
max_on_duty_daily == 14
max_cycle_hours == 70
mandatory_break_after == 8
fuel_stop_interval == 1000
default_speed == 55

VARIABLES
    pc,                  \* where the computation stands
    mode,                \* "planned": plan_days feeds expand_schedule;
                         \* "direct": allotments handed to expand_schedule
    distance_miles,      \* route_info['distance_miles'], whole miles
    driving_hours,       \* route_info['duration_hours'], in ticks
    current_cycle_used,  \* hours already used in the cycle
    daily_plans,         \* the allotments
    remaining_distance,  \* planner loop, rational miles
    remaining_driving,   \* planner loop, ticks
    current_day,         \* planner loop, 1-based
    hos_plan,            \* what generate_hos_compliant_plan returned
    day_idx,             \* generate_daily_logs: index of the day being expanded
    changes,             \* duty status changes of the day being expanded
    sim_times,           \* current_time (ticks from the day's midnight) at
                         \* which each entry of changes was stamped
    current_time,        \* the day's simulated clock, ticks from midnight
    exp_remaining,       \* remaining_driving of the driving loop, ticks
    distance_covered,    \* rational miles covered so far in the day
    daily_logs,          \* the records built so far
    result,              \* what generate_daily_logs returned
    start_date,          \* the start_date argument of generate_daily_logs
    now,                 \* the wall clock, in clock steps
    start_datetime,      \* generate_daily_logs: the parsed start date
    calls,               \* number of calls of generate_daily_logs so far
    first_result,        \* what the first of two calls returned
    grid_changes,        \* the event list handed to _generate_log_sheet_grid
    log_sheet_data,      \* what _generate_log_sheet_grid returned for it
    mongo_up,            \* the MongoDB server answers
    mongo_client,        \* mongodb_manager._client and ._db are set
    mongo_trips,         \* the documents of the trips collection
    orm_trips,           \* the rows of the Trip table, row k has pk k
    response,            \* what the last request handler or ORM call returned
    created,             \* the trips reported as created so far
    written,             \* the stores the last TripViewSet.create wrote
    start_coords,        \* calculate_route: (lat, lon) in whole degrees
    end_coords,          \* calculate_route: (lat, lon) in whole degrees
    routing,             \* how the call of the routing service ended
    route                \* what calculate_route returned

planLoopVars == <<remaining_distance, remaining_driving, current_day>>

inputVars == <<mode, distance_miles, driving_hours, current_cycle_used>>

dayVars == <<changes, sim_times, current_time, exp_remaining, distance_covered>>

expVars == <<day_idx, changes, sim_times, current_time, exp_remaining,
             distance_covered, daily_logs, result>>

vars == <<pc, mode, distance_miles, driving_hours, current_cycle_used,
          daily_plans, remaining_distance, remaining_driving, current_day,
          hos_plan, day_idx, changes, sim_times, current_time, exp_remaining,
          distance_covered, daily_logs, result, start_date, now,
          start_datetime, calls, first_result, grid_changes,
          log_sheet_data, mongo_up, mongo_client, mongo_trips, orm_trips,
          response, created, written, start_coords, end_coords, routing,
          route>>

storeVars == <<mongo_up, mongo_client, mongo_trips, orm_trips, response,
               created, written>>

\* what the planner and the expansion of a day leave alone
routeVars == <<start_coords, end_coords, routing, route>>

otherVars == <<start_date, now, calls, first_result, grid_changes,
               log_sheet_data, storeVars, routeVars>>

NoPlan == [returned |-> FALSE]

(***************************************************************************)
(* The values computed before the day loop, lines 208-229.                 *)
(***************************************************************************)
\* the same difference cut off at zero
remaining_cycle_hours_clamped ==
    IF max_cycle_hours - current_cycle_used < 0
    THEN 0 ELSE max_cycle_hours - current_cycle_used

remaining_cycle_hours == max_cycle_hours - current_cycle_used

fuel_stops == CeilDiv(distance_miles, fuel_stop_interval) - 1

\* 30 minutes per fuel stop, in ticks
fuel_stop_time == fuel_stops * (TicksPerHour \div 2)

pickup_dropoff_time == 2 * TicksPerHour

total_on_duty_needed == driving_hours + fuel_stop_time + pickup_dropoff_time

mandatory_breaks == driving_hours \div (mandatory_break_after * TicksPerHour)

mandatory_break_time == mandatory_breaks * (TicksPerHour \div 2)

total_time_with_breaks == total_on_duty_needed + mandatory_break_time

days_needed == CeilDiv(total_time_with_breaks, max_on_duty_daily * TicksPerHour)

\* len(daily_plan) of a dict built at lines 253-261: its seven keys
plan_keys == 7

(***************************************************************************)
(* One iteration of the day loop, lines 237-273.                           *)
(***************************************************************************)
\* the day's driving taken without the daily cap
max_driving_today_uncapped == remaining_driving

max_driving_today == Min(max_driving_daily * TicksPerHour, remaining_driving)

\* max_driving_today * avg_speed, avg_speed = distance / duration or 55
distance_today ==
    IF driving_hours > 0
    THEN RScale(Rat(distance_miles), max_driving_today, driving_hours)
    ELSE RScale(Rat(default_speed), max_driving_today, TicksPerHour)

fuel_stops_today ==
    IF RLe(Rat(fuel_stop_interval), distance_today)
    THEN RFloorDiv(distance_today, fuel_stop_interval)
    ELSE 0

breaks_today == max_driving_today \div (mandatory_break_after * TicksPerHour)

\* the dropoff test of line 266
reaches_dropoff == RLe(RSub(remaining_distance, distance_today), Rat(0))

\* the same sum without the dropoff hour
total_on_duty_today_no_dropoff ==
    max_driving_today + fuel_stops_today * (TicksPerHour \div 2)
      + (IF current_day = 1 THEN TicksPerHour ELSE 0)

total_on_duty_today ==
    max_driving_today + fuel_stops_today * (TicksPerHour \div 2)
      + (IF current_day = 1 THEN TicksPerHour ELSE 0)
      + (IF reaches_dropoff THEN TicksPerHour ELSE 0)

daily_plan_today ==
    [day |-> current_day,
     driving_hours |-> max_driving_today,
     distance_miles |-> distance_today,
     fuel_stops |-> fuel_stops_today,
     mandatory_breaks |-> breaks_today,
     total_on_duty |-> total_on_duty_today,
     pickup_dropoff_time |-> IF current_day = 1 THEN pickup_dropoff_time ELSE 0,
     nkeys |-> plan_keys,
     is_final_day |-> FALSE]

\* the loop test without the day bound
loop_continues_no_day_bound == RLt(Rat(0), remaining_distance)

loop_continues == RLt(Rat(0), remaining_distance) /\ current_day <= days_needed

PlanDay ==
    /\ pc = "plan_loop"
    /\ loop_continues
    /\ daily_plans' = Append(daily_plans, daily_plan_today)
    /\ remaining_distance' = RSub(remaining_distance, distance_today)
    /\ remaining_driving' = remaining_driving - max_driving_today
    /\ current_day' = current_day + 1
    /\ UNCHANGED <<pc, inputVars, hos_plan, expVars>>
    /\ UNCHANGED <<start_datetime, otherVars>>

\* the return of lines 275-289
PlanReturn ==
    /\ pc = "plan_loop"
    /\ ~loop_continues
    /\ hos_plan' =
          [returned |-> TRUE,
           total_distance |-> distance_miles,
           total_driving_hours |-> driving_hours,
           total_days_needed |-> days_needed,
           total_fuel_stops |-> fuel_stops,
           remaining_cycle_hours |-> remaining_cycle_hours,
           cycle_compliant |->
               total_time_with_breaks <= remaining_cycle_hours * TicksPerHour,
           daily_plans |-> daily_plans,
           total_on_duty_time |-> total_on_duty_needed,
           mandatory_break_time |-> mandatory_break_time,
           fuel_stop_time |-> fuel_stop_time,
           pickup_dropoff_time |-> pickup_dropoff_time]
    /\ pc' = "planned"
    /\ UNCHANGED <<inputVars, daily_plans, planLoopVars, expVars>>
    /\ UNCHANGED <<start_datetime, otherVars>>

(***************************************************************************)
(* ELDLogGenerator, eld_log_generator.py.                                  *)
(***************************************************************************)
self_max_driving_daily == 11
self_max_on_duty_daily == 14
base_odometer == 250000
pickup_leg_miles == 50

NoLogs == [returned |-> FALSE]

\* start_date is None, or a date: dates are day numbers
NoDate == [given |-> FALSE]

Date(d) == [given |-> TRUE, day |-> d]

\* strftime('%Y-%m-%d') of a datetime held in clock steps
strftime_date(t) == t \div ClockStepsPerDay

\* strptime(date, '%Y-%m-%d'): midnight of that day
strptime_date(d) == d * ClockStepsPerDay

\* strftime('%H:%M') of a clock value: the minute of the day, the date and
\* the seconds dropped
strftime(t) == (t \div TicksPerMinute) % MinutesPerDay

Minutes(m) == m * TicksPerMinute

RECURSIVE SumDistance(_, _)
SumDistance(plans, k) ==
    IF k = 0 THEN Rat(0)
    ELSE RAdd(SumDistance(plans, k - 1), plans[k].distance_miles)

\* _calculate_odometer, lines 345-351
calculate_odometer(idx, plans, base) ==
    base + RTrunc(SumDistance(plans, Min(idx, Len(plans))))

Loc(place) == [fuel |-> FALSE, place |-> place, pct |-> 0]

\* _interpolate_location, lines 331-343
interpolate_location(covered, total, start_loc, end_loc) ==
    IF total.n = 0 THEN Loc(start_loc)
    ELSE LET progress == RDiv(covered, total)
         IN  IF RLt(progress, Norm(3, 10))
             THEN Loc("En route from " \o start_loc)
             ELSE IF RLt(progress, Norm(7, 10))
             THEN [fuel |-> FALSE, place |-> "Highway",
                   pct |-> RTrunc(RScale(progress, 100, 1))]
             ELSE Loc("Approaching " \o end_loc)

FuelStopAt(loc) == [loc EXCEPT !.fuel = TRUE]

Event(status, t, location, odometer, notes) ==
    [status |-> status, time |-> strftime(t), location |-> location,
     odometer |-> odometer, notes |-> notes]

\* the allotment generate_daily_logs is expanding
daily_plan == daily_plans[day_idx + 1]

\* every event of _generate_duty_status_changes calls
\* self._calculate_odometer(day_idx, [], 250000)
day_odometer == Rat(calculate_odometer(day_idx, <<>>, base_odometer))

day_start == 6 * TicksPerHour

rest_or(loc) == IF day_idx = 0 THEN loc ELSE "Rest Area"

\* lines 90-132: the events before the driving loop, with their clock values
OpeningEvents ==
    LET t1 == day_start + Minutes(15)
        t2 == t1 + Minutes(45)
        t3 == t2 + TicksPerHour
        wake == IF day_idx > 0
                THEN << <<Event("off_duty", day_start, Loc(rest_or("current_loc")),
                                day_odometer,
                                "End of required 10-hour off-duty period"),
                          day_start>> >>
                ELSE <<>>
        pre == << <<Event("on_duty_not_driving", t1, Loc(rest_or("current_loc")),
                          day_odometer, "Pre-trip inspection"), t1>> >>
        pickup == IF day_idx = 0
                  THEN << <<Event("on_duty_not_driving", t2, Loc("pickup_loc"),
                                  RAdd(day_odometer, Rat(pickup_leg_miles)),
                                  "Arrived at pickup location"), t2>>,
                          <<Event("on_duty_not_driving", t3, Loc("pickup_loc"),
                                  RAdd(day_odometer, Rat(pickup_leg_miles)),
                                  "Completed pickup - ready to drive"), t3>> >>
                  ELSE <<>>
    IN  wake \o pre \o pickup

Events(pairs) == [i \in 1..Len(pairs) |-> pairs[i][1]]

Stamps(pairs) == [i \in 1..Len(pairs) |-> pairs[i][2]]

\* the for loop of generate_daily_logs reaches a day: lines 42-53, 90-138
BeginDay ==
    /\ pc = "expand_loop"
    /\ day_idx < Len(daily_plans)
    /\ changes' = Events(OpeningEvents)
    /\ sim_times' = Stamps(OpeningEvents)
    /\ current_time' = sim_times'[Len(sim_times')]
    /\ exp_remaining' = daily_plan.driving_hours
    /\ distance_covered' = Rat(0)
    /\ pc' = "drive_loop"
    /\ UNCHANGED <<inputVars, daily_plans, planLoopVars, hos_plan, day_idx,
                   daily_logs, result>>
    /\ UNCHANGED <<start_datetime, otherVars>>

(***************************************************************************)
(* One iteration of the driving loop, lines 140-193.                       *)
(***************************************************************************)
driving_segment == Min(8 * TicksPerHour, exp_remaining)

segment_distance ==
    RScale(daily_plan.distance_miles, driving_segment, daily_plan.driving_hours)

needs_fuel_stop ==
    daily_plan.fuel_stops > 0 /\ RLt(Rat(500), segment_distance)

SegmentEvents ==
    LET total == daily_plan.distance_miles
        \* clock values are whole ticks: half a segment is cut to the tick
        fuel_time == current_time + (driving_segment \div 2)
        fuel_distance == RAdd(distance_covered, RScale(segment_distance, 1, 2))
        fuel_loc == FuelStopAt(interpolate_location(fuel_distance, total,
                                                    "pickup_loc", "dropoff_loc"))
        begin == << <<Event("driving", current_time,
                            interpolate_location(distance_covered, total,
                                                 "pickup_loc", "dropoff_loc"),
                            RAdd(day_odometer, distance_covered),
                            "Begin driving"), current_time>> >>
        fuel == IF needs_fuel_stop
                THEN << <<Event("on_duty_not_driving", fuel_time, fuel_loc,
                                RAdd(day_odometer, fuel_distance),
                                "Fueling - 30 minutes"), fuel_time>>,
                        <<Event("driving", fuel_time + Minutes(30), fuel_loc,
                                RAdd(day_odometer, fuel_distance),
                                "Resume driving after fuel"),
                          fuel_time + Minutes(30)>> >>
                ELSE <<>>
        end_time == current_time + driving_segment
        break == IF exp_remaining - driving_segment > 0
                    /\ driving_segment >= 8 * TicksPerHour
                 THEN << <<Event("off_duty", end_time, Loc("Rest Area"),
                                 RAdd(day_odometer,
                                      RAdd(distance_covered, segment_distance)),
                                 "Mandatory 30-minute break after 8 hours driving"),
                           end_time>> >>
                 ELSE <<>>
    IN  begin \o fuel \o break

takes_break ==
    exp_remaining - driving_segment > 0 /\ driving_segment >= 8 * TicksPerHour

DriveSegment ==
    /\ pc = "drive_loop"
    /\ exp_remaining > 0
    /\ changes' = changes \o Events(SegmentEvents)
    /\ sim_times' = sim_times \o Stamps(SegmentEvents)
    /\ current_time' = current_time + driving_segment
                         + (IF takes_break THEN Minutes(30) ELSE 0)
    /\ distance_covered' = RAdd(distance_covered, segment_distance)
    /\ exp_remaining' = exp_remaining - driving_segment
    /\ UNCHANGED <<pc, inputVars, daily_plans, planLoopVars, hos_plan, day_idx,
                   daily_logs, result>>
    /\ UNCHANGED <<start_datetime, otherVars>>

(***************************************************************************)
(* The day's closing events, lines 195-235.                                *)
(***************************************************************************)
\* line 196: len(daily_plan) is the number of keys of the allotment dict
is_last_day == day_idx = daily_plan.nkeys - 1

does_dropoff == is_last_day \/ daily_plan.is_final_day

ClosingEvents ==
    LET end_odometer == RAdd(day_odometer, daily_plan.distance_miles)
        t1 == current_time + TicksPerHour
        t2 == (IF does_dropoff THEN t1 ELSE current_time) + Minutes(15)
        t3 == t2 + Minutes(15)
        end_loc == Loc(IF is_last_day THEN "dropoff_loc" ELSE "Rest Area")
        dropoff == IF does_dropoff
                   THEN << <<Event("on_duty_not_driving", current_time,
                                   Loc("dropoff_loc"), end_odometer,
                                   "Arrived at delivery location"), current_time>>,
                           <<Event("on_duty_not_driving", t1, Loc("dropoff_loc"),
                                   end_odometer, "Completed delivery"), t1>> >>
                   ELSE <<>>
    IN  dropoff \o
        << <<Event("on_duty_not_driving", t2, end_loc, end_odometer,
                   "Post-trip inspection"), t2>>,
           <<Event("off_duty", t3, end_loc, end_odometer,
                   "Begin 10-hour off-duty period"), t3>> >>

(***************************************************************************)
(* Totals and compliance, lines 237-295.                                   *)
(***************************************************************************)
\* minutes from one 'HH:MM' to the next, a day added when the next is earlier
Duration(cur, next) == IF next < cur THEN next + MinutesPerDay - cur ELSE next - cur

RECURSIVE StatusMinutes(_, _, _)
StatusMinutes(evs, status, i) ==
    IF i >= Len(evs) THEN 0
    ELSE (IF evs[i].status = status
          THEN Duration(evs[i].time, evs[i + 1].time) ELSE 0)
         + StatusMinutes(evs, status, i + 1)

\* _calculate_daily_totals, in minutes
calculate_daily_totals(evs) ==
    [driving |-> StatusMinutes(evs, "driving", 1),
     on_duty_not_driving |-> StatusMinutes(evs, "on_duty_not_driving", 1),
     sleeper_berth |-> StatusMinutes(evs, "sleeper_berth", 1),
     off_duty |-> StatusMinutes(evs, "off_duty", 1)]

(***************************************************************************)
(* _generate_log_sheet_grid, lines 297-323.  Slot k of the code is entry   *)
(* k + 1 of the grid here.                                                 *)
(***************************************************************************)
slots_per_day == 96

DutyStatuses == {"off_duty", "sleeper_berth", "driving", "on_duty_not_driving"}

NoGrid == [returned |-> FALSE]

NoResponse == [op |-> "none"]

\* .hour and .minute of a datetime t minutes after the midnight that
\* strptime('%H:%M') starts from: the day is not part of either
hour(t) == (t \div 60) % 24

minute(t) == t % 60

slot_of(t) == (hour(t) * 4) + (minute(t) \div 15)

\* a range that takes its end slot in
slot_range_inclusive(a, b) == a..b

\* range(start_slot, end_slot)
slot_range(a, b) == a..(b - 1)

start_slot(evs, i) == slot_of(evs[i].time)

end_slot(evs, i) ==
    LET start_time == evs[i].time
        next_time == evs[i + 1].time
        end_time == IF next_time < start_time
                    THEN next_time + MinutesPerDay ELSE next_time
    IN  Min(slots_per_day, slot_of(end_time))

\* the grid after the first i changes have been handled
RECURSIVE GridAfter(_, _)
GridAfter(evs, i) ==
    IF i = 0 THEN [s \in 1..slots_per_day |-> "off_duty"]
    ELSE LET g == GridAfter(evs, i - 1)
         IN  IF i < Len(evs)
             THEN [s \in 1..slots_per_day |->
                     IF (s - 1) \in slot_range(start_slot(evs, i), end_slot(evs, i))
                     THEN evs[i].status ELSE g[s]]
             ELSE g

\* time_slots holds '00:00', '00:15', ..., as minutes of the day
generate_log_sheet_grid(evs) ==
    [grid |-> GridAfter(evs, Len(evs)),
     time_slots |-> [s \in 1..slots_per_day |-> (s - 1) * 15]]

\* the compliance verdict with the on-duty cap left out
check_hos_compliance_driving_only(totals) ==
    totals.driving <= self_max_driving_daily * 60

\* _check_hos_compliance, lines 267-270
check_hos_compliance(totals) ==
    /\ totals.driving <= self_max_driving_daily * 60
    /\ totals.driving + totals.on_duty_not_driving <= self_max_on_duty_daily * 60

\* the scan of lines 284-293: TRUE when the counter passes 16
RECURSIVE DrivingRun(_, _, _)
DrivingRun(evs, i, count) ==
    IF i > Len(evs) THEN FALSE
    ELSE LET c == IF evs[i].status = "driving" THEN count + 1
                  ELSE IF evs[i].status \in {"off_duty", "sleeper_berth"} THEN 0
                  ELSE count
         IN  c > 16 \/ DrivingRun(evs, i + 1, c)

\* _check_violations, lines 272-295.  A message is modelled by the cap it
\* names; the hours it prints to one decimal are left out.
check_violations(totals, evs) ==
    (IF totals.driving > self_max_driving_daily * 60
     THEN << [message |-> "Exceeded maximum daily driving time",
              cap |-> self_max_driving_daily] >>
     ELSE <<>>)
    \o (IF totals.driving + totals.on_duty_not_driving > self_max_on_duty_daily * 60
        THEN << [message |-> "Exceeded maximum daily on-duty time",
                 cap |-> self_max_on_duty_daily] >>
        ELSE <<>>)
    \o (IF DrivingRun(evs, 1, 0)
        THEN << [message |-> "Drove more than 8 hours without mandatory 30-minute break",
                 cap |-> 8] >>
        ELSE <<>>)

\* the record of lines 59-79
DailyLog(evs) ==
    LET totals == calculate_daily_totals(evs)
    IN  [date |-> strftime_date(start_datetime + day_idx * ClockStepsPerDay),
         day_of_trip |-> day_idx + 1,
         duty_status_changes |-> evs,
         total_drive_time |-> totals.driving,
         total_on_duty_time |-> totals.on_duty_not_driving + totals.driving,
         total_sleeper_berth_time |-> totals.sleeper_berth,
         total_off_duty_time |-> totals.off_duty,
         distance_traveled |-> daily_plan.distance_miles,
         fuel_stops |-> daily_plan.fuel_stops,
         mandatory_breaks |-> daily_plan.mandatory_breaks,
         odometer_start |-> calculate_odometer(day_idx, daily_plans, base_odometer),
         odometer_end |-> calculate_odometer(day_idx + 1, daily_plans, base_odometer),
         hos_compliant |-> check_hos_compliance(totals),
         violations |-> check_violations(totals, evs),
         log_sheet_data |-> generate_log_sheet_grid(evs)]

\* the driving loop has ended: lines 195-235, then lines 55-81
EndDay ==
    /\ pc = "drive_loop"
    /\ ~(exp_remaining > 0)
    /\ changes' = changes \o Events(ClosingEvents)
    /\ sim_times' = sim_times \o Stamps(ClosingEvents)
    /\ current_time' = sim_times'[Len(sim_times')]
    /\ daily_logs' = Append(daily_logs, DailyLog(changes'))
    /\ day_idx' = day_idx + 1
    /\ pc' = "expand_loop"
    /\ UNCHANGED <<inputVars, daily_plans, planLoopVars, hos_plan, exp_remaining,
                   distance_covered, result>>
    /\ UNCHANGED <<start_datetime, otherVars>>

\* line 83
ExpandReturn ==
    /\ pc = "expand_loop"
    /\ ~(day_idx < Len(daily_plans))
    /\ result' = [returned |-> TRUE, daily_logs |-> daily_logs]
    /\ pc' = "done"
    /\ UNCHANGED <<inputVars, daily_plans, planLoopVars, hos_plan, day_idx,
                   dayVars, daily_logs>>
    /\ UNCHANGED <<start_datetime, otherVars>>

\* generate_daily_logs is called on the plan, lines 24-41
GenerateDailyLogs ==
    /\ pc = "planned"
    /\ start_datetime' =
          strptime_date(IF start_date.given THEN start_date.day
                        ELSE strftime_date(now))
    /\ day_idx' = 0
    /\ daily_logs' = <<>>
    /\ pc' = "expand_loop"
    /\ UNCHANGED <<inputVars, daily_plans, planLoopVars, hos_plan, dayVars, result>>
    /\ UNCHANGED otherVars

(***************************************************************************)
(* Inputs.                                                                 *)
(***************************************************************************)
Hours(h) == h * TicksPerHour

\* duration_hours, in ticks: whole hours, long trips, 24 minutes, five hours
\* and two ticks, and a negative value
DurationChoices ==
    {Hours(h) : h \in 0..MaxHours}
      \cup {Hours(23), Hours(45), Hours(80), Minutes(24), Hours(5) + 2, -Hours(1)}

DistanceChoices == {k * 250 : k \in 0..MaxDistSteps} \cup {-100}

CycleChoices == {-10, 0, 60, 75}

\* allotments handed to generate_daily_logs without the planner: a dict with
\* the keys driving_hours and distance_miles, fuel_stops when it has fuel
\* stops and is_final_day when it is flagged
Allotment(h, d, f, fin) ==
    [day |-> 0, driving_hours |-> h, distance_miles |-> Rat(d),
     fuel_stops |-> f, mandatory_breaks |-> 0, total_on_duty |-> 0,
     pickup_dropoff_time |-> 0,
     nkeys |-> 2 + (IF f > 0 THEN 1 ELSE 0) + (IF fin THEN 1 ELSE 0),
     is_final_day |-> fin]

DirectAllotments ==
    {Allotment(h, d, f, fin) :
        h \in {Minutes(24), Hours(12)}, d \in {600, 1750},
        f \in {0, 1}, fin \in BOOLEAN}
      \cup {Allotment(-Hours(1), 600, 0, FALSE),
            Allotment(Hours(12), -100, 0, FALSE)}

DirectPlans ==
    UNION {[1..n -> DirectAllotments] : n \in 1..MaxDirectDays}

InitDay ==
    /\ day_idx = 0
    /\ changes = <<>>
    /\ sim_times = <<>>
    /\ current_time = 0
    /\ exp_remaining = 0
    /\ distance_covered = Rat(0)
    /\ daily_logs = <<>>
    /\ result = NoLogs
    /\ start_datetime = 0
    /\ calls = 1
    /\ first_result = NoLogs

InitPlanned ==
    /\ mode = "planned"
    /\ pc = "plan_loop"
    /\ distance_miles \in DistanceChoices
    /\ driving_hours \in DurationChoices
    /\ current_cycle_used \in CycleChoices
    /\ daily_plans = <<>>
    /\ remaining_distance = Rat(distance_miles)
    /\ remaining_driving = driving_hours
    /\ current_day = 1
    /\ hos_plan = NoPlan

InitDirect ==
    /\ mode = "direct"
    /\ pc = "planned"
    /\ distance_miles = 0
    /\ driving_hours = 0
    /\ current_cycle_used = 0
    /\ daily_plans \in DirectPlans
    /\ remaining_distance = Rat(0)
    /\ remaining_driving = 0
    /\ current_day = 1
    /\ hos_plan = NoPlan

\* the start date is given
InitDated ==
    /\ start_date = Date(1)
    /\ now = 0

\* no event list has been handed to _generate_log_sheet_grid by itself
InitNoGrid ==
    /\ grid_changes = <<>>
    /\ log_sheet_data = NoGrid

\* no request has been served
InitNoRequest ==
    /\ mongo_trips = <<>>
    /\ orm_trips = <<>>
    /\ response = NoResponse
    /\ created = {}
    /\ written = {}

NoRoute == [returned |-> FALSE]

NoRouting == [kind |-> "none"]

\* calculate_route has not been called
InitNoRoute ==
    /\ start_coords = <<0, 0>>
    /\ end_coords = <<0, 0>>
    /\ routing = NoRouting
    /\ route = NoRoute

\* the server was reachable when mongodb_manager was built
InitConnected ==
    /\ mongo_up = TRUE
    /\ mongo_client = TRUE
    /\ InitNoRequest

Init ==
    (InitPlanned \/ InitDirect) /\ InitDay /\ InitDated /\ InitNoGrid
      /\ InitConnected /\ InitNoRoute

Next ==
    \/ PlanDay
    \/ PlanReturn
    \/ GenerateDailyLogs
    \/ BeginDay
    \/ DriveSegment
    \/ EndDay
    \/ ExpandReturn

Spec == Init /\ [][Next]_vars

(***************************************************************************)
(* Two calls of generate_daily_logs on the same arguments, with a running  *)
(* clock.  The clock is read once, at the start of a call, so its steps    *)
(* are taken between the returns and the calls.                            *)
(***************************************************************************)
\* datetime.now() moves on
Tick ==
    /\ pc \in {"planned", "done"}
    /\ now < MaxClock
    /\ now' = now + 1
    /\ UNCHANGED <<pc, inputVars, daily_plans, planLoopVars, hos_plan, expVars,
                   start_date, start_datetime, calls, first_result,
                   grid_changes, log_sheet_data, storeVars, routeVars>>

\* the caller keeps what the first call returned and calls again with the
\* same trip plan and start date
CallAgain ==
    /\ pc = "done"
    /\ calls = 1
    /\ first_result' = result
    /\ calls' = 2
    /\ pc' = "planned"
    /\ day_idx' = 0
    /\ changes' = <<>>
    /\ sim_times' = <<>>
    /\ current_time' = 0
    /\ exp_remaining' = 0
    /\ distance_covered' = Rat(0)
    /\ daily_logs' = <<>>
    /\ result' = NoLogs
    /\ UNCHANGED <<inputVars, daily_plans, planLoopVars, hos_plan, start_date,
                   now, start_datetime, grid_changes, log_sheet_data,
                   storeVars, routeVars>>

StartDateChoices == {NoDate, Date(1)}

InitClock ==
    /\ InitDirect
    /\ InitDay
    /\ start_date \in StartDateChoices
    /\ now \in 0..MaxClock
    /\ InitNoGrid
    /\ InitConnected
    /\ InitNoRoute

NextClock ==
    \/ GenerateDailyLogs
    \/ BeginDay
    \/ DriveSegment
    \/ EndDay
    \/ ExpandReturn
    \/ Tick
    \/ CallAgain

SpecClock == InitClock /\ [][NextClock]_vars

(***************************************************************************)
(* _generate_log_sheet_grid applied to event lists of its own.             *)
(***************************************************************************)
\* 00:20, 06:15, 12:00 and 23:50
GridTimes == {20, 6 * 60 + 15, 12 * 60, 23 * 60 + 50}

GridEvents ==
    {Event(status, Minutes(t), Loc("Rest Area"), Rat(base_odometer), "") :
        status \in DutyStatuses, t \in GridTimes}

GridInputs == UNION {[1..n -> GridEvents] : n \in 0..MaxGridEvents}

InitGrid ==
    /\ mode = "grid"
    /\ pc = "grid_call"
    /\ distance_miles = 0
    /\ driving_hours = 0
    /\ current_cycle_used = 0
    /\ daily_plans = <<>>
    /\ remaining_distance = Rat(0)
    /\ remaining_driving = 0
    /\ current_day = 1
    /\ hos_plan = NoPlan
    /\ InitDay
    /\ InitDated
    /\ grid_changes \in GridInputs
    /\ log_sheet_data = NoGrid
    /\ InitConnected
    /\ InitNoRoute

GenerateLogSheetGrid ==
    /\ pc = "grid_call"
    /\ log_sheet_data' =
          [returned |-> TRUE, data |-> generate_log_sheet_grid(grid_changes)]
    /\ pc' = "grid_done"
    /\ UNCHANGED <<inputVars, daily_plans, planLoopVars, hos_plan, expVars,
                   start_date, now, start_datetime, calls, first_result,
                   grid_changes, storeVars, routeVars>>

NextGrid == GenerateLogSheetGrid

SpecGrid == InitGrid /\ [][NextGrid]_vars

(***************************************************************************)
(* The trip stores: MongoDBManager (mongodb_manager.py), the Trip model    *)
(* (models.py) and TripViewSet (views.py).  A request handler is one       *)
(* action; the server goes down and comes back between requests.           *)
(***************************************************************************)
\* str(ObjectId) of the n-th inserted document, and the pk of the n-th row
ObjectIdStr(n) == [kind |-> "ObjectId", n |-> n]

PkStr(n) == [kind |-> "pk", n |-> n]

\* the fields of a request, or the keyword arguments of Trip.objects.create
TripData(current, pickup, dropoff, cycle, distance) ==
    [current_location |-> current, pickup_location |-> pickup,
     dropoff_location |-> dropoff, current_cycle_used |-> cycle,
     distance |-> distance]

\* the trip of tests.py, and a second one
TripChoices ==
    {TripData("Chicago, IL", "Denver, CO", "Atlanta, GA", Norm(91, 2), Rat(1200)),
     TripData("Dallas, TX", "Dallas, TX", "Reno, NV", Rat(0), Rat(0))}

\* MongoDBManager.is_connected
is_connected == mongo_client /\ mongo_up

\* the trips property: the collection, or None
trips_collection == mongo_client

\* the document insert_one stores for trip_data, lines 100-103
TripDocument(trip_data) ==
    [_id |-> ObjectIdStr(Len(mongo_trips) + 1),
     current_location |-> trip_data.current_location,
     pickup_location |-> trip_data.pickup_location,
     dropoff_location |-> trip_data.dropoff_location,
     current_cycle_used |-> trip_data.current_cycle_used,
     distance |-> trip_data.distance,
     route_data |-> <<>>,
     created_at |-> now]

\* the row Trip.objects.create stores, models.py lines 4-11
TripRow(fields) ==
    [id |-> Len(orm_trips) + 1,
     current_location |-> fields.current_location,
     pickup_location |-> fields.pickup_location,
     dropoff_location |-> fields.dropoff_location,
     current_cycle_used |-> fields.current_cycle_used,
     distance |-> fields.distance,
     route_data |-> <<>>,
     created_at |-> now]

\* a string form that names the current location instead of the pickup
Trip_str_current(trip) ==
    "Trip from " \o trip.current_location \o " to " \o trip.dropoff_location

\* Trip.__str__
Trip_str(trip) ==
    "Trip from " \o trip.pickup_location \o " to " \o trip.dropoff_location

\* get_trip_by_id: the document, or None for a missing collection, an id
\* that is no ObjectId, a failing server or an unknown id
FoundTrips(trip_id) ==
    IF ~trips_collection \/ trip_id.kind # "ObjectId" \/ ~mongo_up THEN {}
    ELSE {mongo_trips[i] : i \in {j \in 1..Len(mongo_trips) :
                                      mongo_trips[j]._id = trip_id}}

\* how insert_one of line 101 ends: acknowledged; an exception with nothing
\* stored; an exception, such as a timeout, after the server stored the
\* document
InsertOutcomes == {"acknowledged", "raises_unapplied", "raises_applied"}

\* the response of lines 231-243
MongoCreated(created_trip) ==
    [op |-> "create", status |-> 201,
     id |-> created_trip._id,
     current_location |-> created_trip.current_location,
     pickup_location |-> created_trip.pickup_location,
     dropoff_location |-> created_trip.dropoff_location,
     current_cycle_used |-> created_trip.current_cycle_used,
     distance |-> created_trip.distance,
     route_data |-> created_trip.route_data,
     created_at |-> created_trip.created_at,
     logs |-> <<>>, data_source |-> "mongodb"]

\* the response of super().create, lines 247 and 252
OrmCreated(trip) ==
    [op |-> "create", status |-> 201,
     id |-> PkStr(trip.id),
     current_location |-> trip.current_location,
     pickup_location |-> trip.pickup_location,
     dropoff_location |-> trip.dropoff_location,
     current_cycle_used |-> trip.current_cycle_used,
     distance |-> trip.distance,
     route_data |-> trip.route_data,
     created_at |-> trip.created_at,
     logs |-> <<>>]

\* TripViewSet.create, lines 216-252: insert_one is called when
\* is_connected answers True; super().create runs when it answers False
\* (line 247) and when anything inside try raises (line 252)
TripCreate ==
    /\ Len(mongo_trips) + Len(orm_trips) < MaxTrips
    /\ \E data \in TripChoices, insert \in InsertOutcomes :
          LET stored == is_connected /\ insert # "raises_unapplied"
              fallback == ~is_connected \/ insert # "acknowledged"
              created_trip == TripDocument(data)
              trip == TripRow(data)
          IN  /\ ~is_connected => insert = "acknowledged"
              /\ mongo_trips' = IF stored THEN Append(mongo_trips, created_trip)
                                ELSE mongo_trips
              /\ orm_trips' = IF fallback THEN Append(orm_trips, trip)
                              ELSE orm_trips
              /\ response' = IF fallback THEN OrmCreated(trip)
                             ELSE MongoCreated(created_trip)
              /\ created' = created \cup
                    {IF fallback
                     THEN [id |-> PkStr(trip.id), store |-> "orm",
                           data |-> data]
                     ELSE [id |-> created_trip._id, store |-> "mongodb",
                           data |-> data]}
              /\ written' = (IF stored THEN {"mongodb"} ELSE {})
                              \cup (IF fallback THEN {"orm"} ELSE {})
    /\ UNCHANGED <<pc, inputVars, daily_plans, planLoopVars, hos_plan, expVars,
                   start_date, now, start_datetime, calls, first_result,
                   grid_changes, log_sheet_data, routeVars, mongo_up,
                   mongo_client>>

\* the ids a client asks for: those it was given, and one it was not
RequestedIds == {c.id : c \in created} \cup {ObjectIdStr(0)}

\* TripViewSet.retrieve, lines 254-269; server_up records whether the
\* server answered during the request
TripRetrieve ==
    /\ \E pk \in RequestedIds :
          response' =
              IF FoundTrips(pk) # {}
              THEN [op |-> "retrieve", pk |-> pk, status |-> 200,
                    trip |-> CHOOSE t \in FoundTrips(pk) : TRUE,
                    id |-> pk, logs |-> <<>>, server_up |-> mongo_up]
              ELSE [op |-> "retrieve", pk |-> pk, status |-> 404,
                    server_up |-> mongo_up]
    /\ UNCHANGED <<pc, inputVars, daily_plans, planLoopVars, hos_plan, expVars,
                   start_date, now, start_datetime, calls, first_result,
                   grid_changes, log_sheet_data, routeVars, mongo_up, mongo_client,
                   mongo_trips, orm_trips, created, written>>

\* Trip.objects.create as tests.py calls it, lines 6-13
TripObjectsCreate ==
    /\ Len(mongo_trips) + Len(orm_trips) < MaxTrips
    /\ \E fields \in TripChoices :
          LET trip == TripRow(fields)
          IN  /\ orm_trips' = Append(orm_trips, trip)
              /\ response' = [op |-> "objects_create", fields |-> fields,
                              trip |-> trip, str |-> Trip_str(trip)]
    /\ UNCHANGED <<pc, inputVars, daily_plans, planLoopVars, hos_plan, expVars,
                   start_date, now, start_datetime, calls, first_result,
                   grid_changes, log_sheet_data, routeVars, mongo_up, mongo_client,
                   mongo_trips, created, written>>

\* the server stops answering
ServerDown ==
    /\ mongo_up
    /\ mongo_up' = FALSE
    /\ UNCHANGED <<pc, inputVars, daily_plans, planLoopVars, hos_plan, expVars,
                   start_date, now, start_datetime, calls, first_result,
                   grid_changes, log_sheet_data, routeVars, mongo_client, mongo_trips,
                   orm_trips, response, created, written>>

\* the server answers again; the manager keeps what connect() left
ServerUp ==
    /\ ~mongo_up
    /\ mongo_up' = TRUE
    /\ UNCHANGED <<pc, inputVars, daily_plans, planLoopVars, hos_plan, expVars,
                   start_date, now, start_datetime, calls, first_result,
                   grid_changes, log_sheet_data, routeVars, mongo_client, mongo_trips,
                   orm_trips, response, created, written>>

\* MongoDBManager.connect at import, lines 20-58: the client and the
\* database are kept when the ping succeeds and dropped when it fails
InitStore ==
    /\ mode = "store"
    /\ pc = "serving"
    /\ distance_miles = 0
    /\ driving_hours = 0
    /\ current_cycle_used = 0
    /\ daily_plans = <<>>
    /\ remaining_distance = Rat(0)
    /\ remaining_driving = 0
    /\ current_day = 1
    /\ hos_plan = NoPlan
    /\ InitDay
    /\ InitDated
    /\ InitNoGrid
    /\ mongo_up \in BOOLEAN
    /\ mongo_client = mongo_up
    /\ InitNoRequest
    /\ InitNoRoute

NextStore ==
    \/ TripCreate
    \/ TripRetrieve
    \/ TripObjectsCreate
    \/ ServerDown
    \/ ServerUp

SpecStore == InitStore /\ [][NextStore]_vars

(***************************************************************************)
(* RouteService.calculate_route, lines 102-165, with the routing service   *)
(* as its environment.  Coordinates are points of the equator in whole     *)
(* degrees; a fallback distance is a rational multiple of pi, in miles.    *)
(***************************************************************************)
earth_radius_miles == 3956

fallback_speed_mph == 55

PiTimes(q) == [pi_times |-> q]

\* c of lines 188-190, in degrees: with both latitudes 0, a is
\* sin(dlon/2)^2 and 2 * asin(sqrt(a)) folds dlon into 0..180
central_angle(coord1, coord2) ==
    LET dlon == Abs(coord2[2] - coord1[2]) % 360
    IN  IF dlon <= 180 THEN dlon ELSE 360 - dlon

\* math.radians turns the degrees into degrees * pi / 180
calculate_distance_fallback(coord1, coord2) ==
    PiTimes(Norm(central_angle(coord1, coord2) * earth_radius_miles, 180))

\* meters * 0.000621371
meters_to_miles(meters) == RScale(Rat(meters), 621371, 1000000000)

Coords == {<<0, -170>>, <<0, 0>>, <<0, 10>>, <<0, 170>>}

\* a step of the answer: an instruction, a distance in meters and a
\* duration in seconds
RouteSteps == {<<>>, <<[instruction |-> "Head north", distance |-> 1000000,
                        duration |-> 3600]>>}

\* how the call ends: an answer with a route, or the exception that one of
\* lines 116-134 raises
RoutingOutcomes ==
    [kind : {"ok"}, distance : {0, 1000000, 3200000},
     duration : {0, 3600, 5400}, steps : RouteSteps]
      \cup [kind : {"raises"},
            exception : {"Timeout", "ConnectionError", "HTTPError",
                         "JSONDecodeError", "KeyError", "IndexError"}]

\* an except clause for the request errors alone
caught_request_errors(exception) ==
    exception \in {"Timeout", "ConnectionError", "HTTPError"}

\* line 149: except Exception; every exception of RoutingOutcomes is one
caught(exception) ==
    exception \in {"Timeout", "ConnectionError", "HTTPError",
                   "JSONDecodeError", "KeyError", "IndexError"}

\* lines 126-147
route_answer(outcome) ==
    [returned |-> TRUE,
     distance_miles |-> meters_to_miles(outcome.distance),
     duration_hours |-> Norm(outcome.duration, 3600),
     geometry |-> "decoded",
     instructions |->
         [k \in 1..Len(outcome.steps) |->
             [instruction |-> outcome.steps[k].instruction,
              distance |-> meters_to_miles(outcome.steps[k].distance),
              duration |-> Norm(outcome.steps[k].duration, 60)]],
     success |-> TRUE]

\* lines 150-165
route_fallback ==
    LET miles == calculate_distance_fallback(start_coords, end_coords)
        hours == PiTimes(RScale(miles.pi_times, 1, fallback_speed_mph))
    IN  [returned |-> TRUE,
         distance_miles |-> miles,
         duration_hours |-> hours,
         geometry |-> <<start_coords, end_coords>>,
         instructions |->
             <<[instruction |-> "Drive from start to destination",
                distance |-> miles,
                duration |-> PiTimes(RScale(hours.pi_times, 60, 1))]>>,
         success |-> FALSE,
         fallback |-> TRUE]

CalculateRoute ==
    /\ pc = "route_call"
    /\ \E outcome \in RoutingOutcomes :
          /\ routing' = outcome
          /\ route' =
                IF outcome.kind = "ok" THEN route_answer(outcome)
                ELSE IF caught(outcome.exception) THEN route_fallback
                ELSE [returned |-> FALSE, raised |-> outcome.exception]
    /\ pc' = "route_done"
    /\ UNCHANGED <<inputVars, daily_plans, planLoopVars, hos_plan, expVars,
                   start_date, now, start_datetime, calls, first_result,
                   grid_changes, log_sheet_data, storeVars, start_coords,
                   end_coords>>

\* get_trip_plan, lines 300-314, calls calculate_route with two geocoded
\* points
InitRoute ==
    /\ mode = "route"
    /\ pc = "route_call"
    /\ distance_miles = 0
    /\ driving_hours = 0
    /\ current_cycle_used = 0
    /\ daily_plans = <<>>
    /\ remaining_distance = Rat(0)
    /\ remaining_driving = 0
    /\ current_day = 1
    /\ hos_plan = NoPlan
    /\ InitDay
    /\ InitDated
    /\ InitNoGrid
    /\ InitConnected
    /\ start_coords \in Coords
    /\ end_coords \in Coords
    /\ routing = NoRouting
    /\ route = NoRoute

NextRoute == CalculateRoute

SpecRoute == InitRoute /\ [][NextRoute]_vars

(***************************************************************************)
(* Properties.                                                             *)
(***************************************************************************)
RECURSIVE SumHours(_, _)
SumHours(plans, k) ==
    IF k = 0 THEN 0 ELSE SumHours(plans, k - 1) + plans[k].driving_hours

\* the inputs section 4.1 and section 7 of the specification call valid
ValidInput ==
    /\ distance_miles >= 0
    /\ driving_hours >= 0
    /\ current_cycle_used >= 0
    /\ ~(driving_hours > 0 /\ distance_miles = 0)
    /\ ~(driving_hours = 0 /\ distance_miles > 0)

PlanReturned == mode = "planned" /\ hos_plan.returned

\* C1: for every valid input the allotments of the returned plan sum to the
\* input distance and to the input duration.
C1_AllotmentsSumToInput ==
    (PlanReturned /\ ValidInput) =>
        /\ SumDistance(hos_plan.daily_plans, Len(hos_plan.daily_plans))
             = Rat(distance_miles)
        /\ SumHours(hos_plan.daily_plans, Len(hos_plan.daily_plans))
             = driving_hours

\* C2: for every valid input every allotment of the returned plan has
\* total_on_duty of at most 14 hours.
C2_OnDutyWithin14 ==
    (PlanReturned /\ ValidInput) =>
        \A i \in 1..Len(hos_plan.daily_plans) :
            hos_plan.daily_plans[i].total_on_duty
              <= max_on_duty_daily * TicksPerHour

\* C3: every allotment the planner builds has driving_hours of at most 11
\* hours, whatever the input.
C3_DrivingWithin11 ==
    mode = "planned" =>
        \A i \in 1..Len(daily_plans) :
            daily_plans[i].driving_hours <= max_driving_daily * TicksPerHour

\* a plan of several days whose first day is cut to the 11-hour cap
C3_Witness ==
    /\ PlanReturned
    /\ driving_hours > max_driving_daily * TicksPerHour
    /\ Len(hos_plan.daily_plans) >= 2
    /\ hos_plan.daily_plans[1].driving_hours = max_driving_daily * TicksPerHour

NonDecreasingOdometer(evs) ==
    \A i \in 1..(Len(evs) - 1) : RLe(evs[i].odometer, evs[i + 1].odometer)

\* C4: odometer readings never decrease from one event to the next, within
\* a day and from the last event of a day to the first of the next day.
C4_OdometerNeverDecreases ==
    (mode = "planned" /\ ValidInput) =>
        /\ \A k \in 1..Len(daily_logs) :
               NonDecreasingOdometer(daily_logs[k].duty_status_changes)
        /\ \A k \in 1..(Len(daily_logs) - 1) :
               LET last == daily_logs[k].duty_status_changes
                   first == daily_logs[k + 1].duty_status_changes
               IN  RLe(last[Len(last)].odometer, first[1].odometer)

\* the allotment whose events changes holds
ExpandedDay == IF pc = "drive_loop" THEN day_idx + 1 ELSE day_idx

WellFormed(plan) == plan.driving_hours >= 0 /\ plan.distance_miles.n >= 0

\* C5: within a day the simulated time of the events never goes backwards,
\* for any allotment with non-negative driving hours and distance.
C5_TimeNeverGoesBack ==
    (ExpandedDay >= 1 /\ WellFormed(daily_plans[ExpandedDay])) =>
        \A i \in 1..(Len(sim_times) - 1) : sim_times[i] <= sim_times[i + 1]

\* the pair of dropoff events at position i of a day's events
DropoffPairAt(evs, i) ==
    /\ i + 1 <= Len(evs)
    /\ evs[i].notes = "Arrived at delivery location"
    /\ evs[i + 1].notes = "Completed delivery"
    /\ evs[i].status = "on_duty_not_driving"
    /\ evs[i + 1].status = "on_duty_not_driving"
    /\ evs[i].location = Loc("dropoff_loc")
    /\ evs[i + 1].location = Loc("dropoff_loc")
    /\ Duration(evs[i].time, evs[i + 1].time) = 60

HasDropoff(log) ==
    \E i \in 1..Len(log.duty_status_changes) :
        DropoffPairAt(log.duty_status_changes, i)

\* C6: expanding a plan of plan_days puts the dropoff events in the record
\* of the last day and in no earlier record.
C6_DropoffOnLastDay ==
    (pc = "done" /\ mode = "planned" /\ ValidInput /\ Len(daily_logs) >= 1) =>
        /\ HasDropoff(daily_logs[Len(daily_logs)])
        /\ \A k \in 1..(Len(daily_logs) - 1) : ~HasDropoff(daily_logs[k])

CitesCap(log, cap) ==
    \E i \in 1..Len(log.violations) : log.violations[i].cap = cap

\* C7: the record of an allotment of 12 driving hours handed to
\* expand_schedule reports hos_compliant = False and a violation that cites
\* the 11-hour cap.
C7_TwelveHoursFlagged ==
    mode = "direct" =>
        \A k \in 1..Len(daily_logs) :
            (daily_plans[k].driving_hours = Hours(12)
               /\ daily_plans[k].distance_miles.n >= 0) =>
                /\ ~daily_logs[k].hos_compliant
                /\ CitesCap(daily_logs[k], self_max_driving_daily)

HasMessage(log, message) ==
    \E i \in 1..Len(log.violations) : log.violations[i].message = message

\* C8: in every daily record hos_compliant is False exactly when the
\* violations list is non-empty, and each exceeded cap has its message.
C8_CompliantIffNoViolations ==
    \A k \in 1..Len(daily_logs) :
        LET log == daily_logs[k]
        IN  /\ (~log.hos_compliant) <=> (log.violations # <<>>)
            /\ (log.total_drive_time > 11 * 60)
                 <=> HasMessage(log, "Exceeded maximum daily driving time")
            /\ (log.total_on_duty_time > 14 * 60)
                 <=> HasMessage(log, "Exceeded maximum daily on-duty time")

\* a day over the 14-hour cap only, beside a compliant day
C8_Witness ==
    /\ pc = "done"
    /\ \E k \in 1..Len(daily_logs) :
           /\ ~daily_logs[k].hos_compliant
           /\ daily_logs[k].total_drive_time <= 11 * 60
           /\ Len(daily_logs[k].violations) = 1
    /\ \E k \in 1..Len(daily_logs) :
           daily_logs[k].hos_compliant /\ daily_logs[k].violations = <<>>

\* C9: plan_days returns no plan, and emits no allotment, when an input is
\* negative or when exactly one of distance and duration is zero.
C9_InvalidInputRejected ==
    (mode = "planned" /\ ~ValidInput) =>
        /\ ~hos_plan.returned
        /\ daily_plans = <<>>

\* C10: expand_schedule returns no daily records when an allotment has
\* negative driving hours or negative distance.
C10_MalformedAllotmentRejected ==
    (mode = "direct" /\ \E i \in 1..Len(daily_plans) : ~WellFormed(daily_plans[i]))
        => ~result.returned

\* C11: within each day's record the events are in strictly increasing
\* chronological order: no two consecutive events carry the same timestamp.
C11_StrictlyIncreasingTimes ==
    (mode = "planned" /\ ValidInput) =>
        \A k \in 1..Len(daily_logs) :
            LET evs == daily_logs[k].duty_status_changes
            IN  \A i \in 1..(Len(evs) - 1) : evs[i].time < evs[i + 1].time

\* C12: the returned plan has remaining_cycle_hours = 70 - cycle_used, not
\* clamped, and cycle_compliant exactly when the trip's on-duty time with
\* breaks fits in it; a trip of non-negative distance and duration planned
\* with more than 70 cycle hours used is non-compliant; 2500 miles, 45 hours
\* and 60 hours used give 10 remaining hours and cycle_compliant False.
C12_CycleVerdict ==
    PlanReturned =>
        LET with_breaks == driving_hours + hos_plan.fuel_stop_time
                             + 2 * TicksPerHour + hos_plan.mandatory_break_time
        IN  /\ hos_plan.remaining_cycle_hours = 70 - current_cycle_used
            /\ hos_plan.cycle_compliant
                 <=> (with_breaks <= (70 - current_cycle_used) * TicksPerHour)
            /\ (current_cycle_used > 70 /\ distance_miles >= 0
                  /\ driving_hours >= 0) => ~hos_plan.cycle_compliant
            /\ (distance_miles = 2500 /\ driving_hours = Hours(45)
                  /\ current_cycle_used = 60) =>
                   /\ hos_plan.remaining_cycle_hours = 10
                   /\ ~hos_plan.cycle_compliant

\* the plan of 2500 miles and 45 hours with 60 cycle hours used
C12_Witness ==
    /\ PlanReturned
    /\ distance_miles = 2500 /\ driving_hours = Hours(45)
    /\ current_cycle_used = 60
    /\ hos_plan.remaining_cycle_hours = 10
    /\ ~hos_plan.cycle_compliant

\* C13: 500 miles and 9 hours with no cycle hours used plan one day, no
\* fuel stop and one mandatory break: exactly one allotment, of 9 driving
\* hours, whose on-duty total includes the pickup hour and the dropoff hour.
C13_NineHourTrip ==
    (PlanReturned /\ distance_miles = 500 /\ driving_hours = Hours(9)
       /\ current_cycle_used = 0) =>
        /\ hos_plan.total_days_needed = 1
        /\ hos_plan.total_fuel_stops = 0
        /\ hos_plan.mandatory_break_time = TicksPerHour \div 2
        /\ Len(hos_plan.daily_plans) = 1
        /\ hos_plan.daily_plans[1].driving_hours = Hours(9)
        /\ hos_plan.daily_plans[1].mandatory_breaks = 1
        /\ hos_plan.daily_plans[1].fuel_stops = 0
        /\ hos_plan.daily_plans[1].total_on_duty = Hours(9) + 2 * TicksPerHour

\* the returned plan of that trip
C13_Witness ==
    /\ PlanReturned
    /\ distance_miles = 500 /\ driving_hours = Hours(9)
    /\ current_cycle_used = 0
    /\ Len(hos_plan.daily_plans) = 1
    /\ hos_plan.daily_plans[1].day = 1

\* C14: two calls of expand_schedule with identical inputs return identical
\* output, also when no start date is supplied: the output never depends on
\* the clock.
C14_SecondCallSameOutput ==
    (pc = "done" /\ calls = 2) => result = first_result

\* no event of the day is stamped earlier than the event before it
NoRollover(evs) == \A i \in 1..(Len(evs) - 1) : evs[i].time <= evs[i + 1].time

CountSlots(grid, status) ==
    Cardinality({s \in 1..slots_per_day : grid[s] = status})

\* C15: in the record of a day whose events do not cross midnight, the
\* status that fills the most slots of the grid is the status with the
\* largest of the day's four hour totals.
C15_DominantStatusMatchesTotals ==
    \A k \in 1..Len(daily_logs) :
        LET evs == daily_logs[k].duty_status_changes
            grid == daily_logs[k].log_sheet_data.grid
            totals == calculate_daily_totals(evs)
        IN  NoRollover(evs) =>
                \E top \in DutyStatuses :
                    /\ \A u \in DutyStatuses :
                           CountSlots(grid, top) >= CountSlots(grid, u)
                    /\ \A u \in DutyStatuses : totals[top] >= totals[u]

\* the interval from event i to event i + 1 crosses midnight
Rollover(evs, i) == evs[i + 1].time < evs[i].time

\* slot k, the quarter hour from minute 15 k on, meets the interval between
\* two adjacent events; an interval that crosses midnight runs to the end
\* of the day
Covered(evs, k) ==
    \E i \in 1..(Len(evs) - 1) :
        /\ 15 * k + 15 > evs[i].time
        /\ Rollover(evs, i) \/ 15 * k < evs[i + 1].time

\* C16: the grid of any event list, an empty, a single-event or a
\* midnight-crossing list included, has exactly 96 slots, each holding one
\* of the four statuses, and every slot that no interval between two
\* adjacent events covers holds off_duty.
C16_GridWellFormed ==
    log_sheet_data.returned =>
        LET grid == log_sheet_data.data.grid
        IN  /\ DOMAIN grid = 1..96
            /\ \A s \in 1..96 :
                   /\ grid[s] \in DutyStatuses
                   /\ ~Covered(grid_changes, s - 1) => grid[s] = "off_duty"

\* the grid of three events, the last interval crossing midnight, with a
\* driving interval drawn and the slots before the first event off duty
C16_Witness ==
    /\ log_sheet_data.returned
    /\ Len(grid_changes) = 3
    /\ Rollover(grid_changes, 2)
    /\ grid_changes[1].status = "driving"
    /\ grid_changes[1].time > 0
    /\ log_sheet_data.data.grid[1] = "off_duty"
    /\ \E s \in 1..96 : log_sheet_data.data.grid[s] = "driving"

\* C17: when the next event's timestamp is earlier than the current
\* event's, the slots from the current event's slot up to slot 95 hold the
\* current event's status (unless a later interval draws over them).
C17_RolloverFilledToEnd ==
    log_sheet_data.returned =>
        LET evs == grid_changes
            grid == log_sheet_data.data.grid
        IN  \A i \in 1..(Len(evs) - 1) :
                Rollover(evs, i) =>
                    \A k \in start_slot(evs, i)..95 :
                        (\A j \in (i + 1)..(Len(evs) - 1) :
                            k \notin slot_range(start_slot(evs, j), end_slot(evs, j)))
                          => grid[k + 1] = evs[i].status

\* events i..j-1 of a day are all driving: one uninterrupted stretch that
\* event j ends
DrivingStretch(evs, i, j) ==
    /\ i < j
    /\ \A n \in i..(j - 1) : evs[n].status = "driving"

\* C20: in the records of a planned trip each uninterrupted stretch of
\* driving lasts at most 8 hours, and every 'Begin driving' after the first
\* of a day follows a 30-minute off_duty break.
C20_DrivingStretchAtMost8 ==
    (mode = "planned" /\ ValidInput) =>
        \A k \in 1..Len(daily_logs) :
            LET evs == daily_logs[k].duty_status_changes
            IN  /\ \A i, j \in 1..Len(evs) :
                       DrivingStretch(evs, i, j) =>
                           Duration(evs[i].time, evs[j].time) <= 8 * 60
                /\ \A i, j \in 1..Len(evs) :
                       (i < j /\ evs[i].notes = "Begin driving"
                          /\ evs[j].notes = "Begin driving") =>
                           /\ evs[j - 1].status = "off_duty"
                           /\ Duration(evs[j - 1].time, evs[j].time) = 30

\* C18: a trip that TripViewSet.create reported as created is returned by
\* TripViewSet.retrieve for the id the create returned, whichever store took
\* the write, while that store answers.
C18_CreatedTripRetrievable ==
    response.op = "retrieve" =>
        \A c \in created :
            (c.id = response.pk /\ (c.store = "mongodb" => response.server_up)) =>
                /\ response.status = 200
                /\ response.trip.pickup_location = c.data.pickup_location
                /\ response.trip.dropoff_location = c.data.dropoff_location

\* C19: a Trip created with given field values reads back exactly those
\* values, and its string form is 'Trip from <pickup_location> to
\* <dropoff_location>'.
C19_TripReadsBack ==
    response.op = "objects_create" =>
        /\ response.trip.current_location = response.fields.current_location
        /\ response.trip.pickup_location = response.fields.pickup_location
        /\ response.trip.dropoff_location = response.fields.dropoff_location
        /\ response.trip.current_cycle_used = response.fields.current_cycle_used
        /\ response.trip.distance = response.fields.distance
        /\ response.str = "Trip from " \o response.fields.pickup_location
                            \o " to " \o response.fields.dropoff_location
        /\ orm_trips[response.trip.id] = response.trip

\* the trip of tests.py, created as the second row
C19_Witness ==
    /\ response.op = "objects_create"
    /\ response.fields.current_location = "Chicago, IL"
    /\ response.trip.id = 2
    /\ response.str = "Trip from Denver, CO to Atlanta, GA"
    /\ response.trip.current_cycle_used = Norm(91, 2)
    /\ response.trip.distance = Rat(1200)

\* C21: every day's record, first day or later, holds a pre-trip
\* inspection event before its first driving event, on duty and not
\* driving, and the interval that event opens lasts at least 15 minutes.
C21_PreTripFifteenMinutes ==
    \A k \in 1..Len(daily_logs) :
        LET evs == daily_logs[k].duty_status_changes
        IN  WellFormed(daily_plans[k]) =>
                \E i \in 1..(Len(evs) - 1) :
                    /\ evs[i].notes = "Pre-trip inspection"
                    /\ evs[i].status = "on_duty_not_driving"
                    /\ \A n \in 1..i : evs[n].status # "driving"
                    /\ Duration(evs[i].time, evs[i + 1].time) >= 15

\* C22: for a distance of zero or more the plan reports total fuel stops
\* ceil(distance / 1000) - 1 floored at 0: neither the reported count nor
\* the fuel time added to the on-duty total is negative.
C22_FuelStopsFlooredAtZero ==
    (PlanReturned /\ distance_miles >= 0) =>
        /\ hos_plan.total_fuel_stops >= 0
        /\ hos_plan.fuel_stop_time >= 0
        /\ hos_plan.total_fuel_stops =
             (IF CeilDiv(distance_miles, 1000) - 1 < 0
              THEN 0 ELSE CeilDiv(distance_miles, 1000) - 1)

\* C25: every daily record derived from a plan that plan_days made from
\* valid inputs reports hos_compliant = True and no violations; a planned
\* day of exactly 11 driving hours is not flagged.
C25_PlannedDaysCompliant ==
    (mode = "planned" /\ ValidInput) =>
        \A k \in 1..Len(daily_logs) :
            /\ daily_logs[k].hos_compliant
            /\ daily_logs[k].violations = <<>>

\* C26: the total_drive_time of the record built from an allotment with
\* driving_hours of zero or more equals the allotment's driving_hours,
\* with or without fuel stops, a mandatory break or the dropoff.
C26_DriveTimeEqualsAllotment ==
    \A k \in 1..Len(daily_logs) :
        WellFormed(daily_plans[k]) =>
            Minutes(daily_logs[k].total_drive_time) = daily_plans[k].driving_hours

\* C27: for every valid input, here with positive distance and duration,
\* the number of allotments of the returned plan equals its
\* total_days_needed.
C27_AllotmentsEqualDaysNeeded ==
    (PlanReturned /\ ValidInput /\ distance_miles > 0 /\ driving_hours > 0) =>
        Len(hos_plan.daily_plans) = hos_plan.total_days_needed

\* the on-duty total of an allotment holds the dropoff hour: it is one hour
\* above driving, fuel stops and, on day 1, the pickup hour
CarriesDropoff(plan) ==
    plan.total_on_duty =
        plan.driving_hours + plan.fuel_stops * (TicksPerHour \div 2)
          + (IF plan.day = 1 THEN TicksPerHour ELSE 0) + TicksPerHour

\* C28: in every returned plan of a trip with positive distance and
\* duration exactly one allotment carries the dropoff hour in its on-duty
\* total, and it is the last one.
C28_OneDropoffOnLastAllotment ==
    (PlanReturned /\ distance_miles > 0 /\ driving_hours > 0) =>
        LET plans == hos_plan.daily_plans
        IN  /\ Len(plans) >= 1
            /\ CarriesDropoff(plans[Len(plans)])
            /\ \A i \in 1..(Len(plans) - 1) : ~CarriesDropoff(plans[i])

RECURSIVE SumField(_, _, _)
SumField(plans, field, k) ==
    IF k = 0 THEN 0 ELSE SumField(plans, field, k - 1) + plans[k][field]

\* C29: in every plan returned for valid input the per-day fuel_stops sum
\* to total_fuel_stops and the per-day mandatory_breaks sum to
\* floor(duration / 8).
C29_PerDayCountsSumToTotals ==
    (PlanReturned /\ ValidInput /\ distance_miles > 0) =>
        LET plans == hos_plan.daily_plans
        IN  /\ SumField(plans, "fuel_stops", Len(plans))
                 = hos_plan.total_fuel_stops
            /\ SumField(plans, "mandatory_breaks", Len(plans))
                 = driving_hours \div (8 * TicksPerHour)

\* the driving loop of the day being expanded has run n times when the
\* day holds n 'Begin driving' events
BeginDrivingCount(evs) ==
    Cardinality({i \in 1..Len(evs) : evs[i].notes = "Begin driving"})

Positive(n) == IF n < 0 THEN 0 ELSE n

\* what is left to do, most significant first: the phase, the rounds of the
\* day loop of the planner, the days still to expand, the position within
\* the day, the driving time of the day not yet laid out
Measure ==
    <<CASE pc = "plan_loop" -> 2 [] pc = "planned" -> 1 [] OTHER -> 0,
      IF pc = "plan_loop" THEN Positive(days_needed - current_day + 1) ELSE 0,
      IF pc \in {"expand_loop", "drive_loop"}
          THEN Positive(Len(daily_plans) - day_idx) ELSE 0,
      CASE pc = "expand_loop" -> 2 [] pc = "drive_loop" -> 1 [] OTHER -> 0,
      IF pc = "drive_loop" THEN Positive(exp_remaining) ELSE 0>>

\* the lexicographic order on measures, well-founded on naturals
RECURSIVE LexLess(_, _)
LexLess(m, n) ==
    /\ m # <<>>
    /\ \/ Head(m) < Head(n)
       \/ Head(m) = Head(n) /\ LexLess(Tail(m), Tail(n))

\* C23: both computations terminate for every input: every step of either
\* function strictly lowers a measure in a well-founded order, so no run has
\* infinitely many steps; the day loop of the planner runs at most
\* days_needed times, also for duration 0 with a positive distance, and the
\* driving loop of a day ends after at most ceil(driving_hours / 8) steps
\* of at most 8 hours each.
C23_BothLoopsTerminate ==
    /\ [][LexLess(Measure', Measure)]_vars
    /\ [](mode = "planned" => Len(daily_plans) <= Positive(days_needed))
    /\ [](pc = "drive_loop" =>
            /\ exp_remaining <= daily_plan.driving_hours
            /\ BeginDrivingCount(changes)
                 <= CeilDiv(Positive(daily_plan.driving_hours),
                            8 * TicksPerHour))

\* the plan of a trip with duration 0 and a positive distance has been
\* made, in days_needed rounds that consumed no distance, and expanded
C23_Witness ==
    /\ pc = "done"
    /\ mode = "planned"
    /\ driving_hours = 0 /\ distance_miles > 0
    /\ Len(daily_plans) = days_needed
    /\ Len(daily_plans) >= 1
    /\ remaining_distance = Rat(distance_miles)

\* the shorter way round the equator between two of its points, in degrees
GreatCircleDegrees(a, b) ==
    Min(Abs(a[2] - b[2]), 360 - Abs(a[2] - b[2]))

\* C24: calculate_route never propagates a failure of the routing call:
\* whatever the call raises, the function returns a result with success
\* False and fallback True whose distance is the great-circle estimate
\* between the two points on a sphere of radius 3956 miles and whose
\* duration is that distance divided by 55.
C24_FallbackOnAnyFailure ==
    (pc = "route_done" /\ routing.kind = "raises") =>
        /\ route.returned
        /\ "raised" \notin DOMAIN route
        /\ route.success = FALSE
        /\ route.fallback = TRUE
        /\ route.distance_miles =
              PiTimes(Norm(GreatCircleDegrees(start_coords, end_coords) * 3956,
                           180))
        /\ route.duration_hours =
              PiTimes(RDiv(route.distance_miles.pi_times, Rat(55)))

\* the answer of the routing service held no route for two points 20
\* degrees apart across the date line: 20 * pi / 180 * 3956 miles
C24_Witness ==
    /\ pc = "route_done"
    /\ routing.kind = "raises" /\ routing.exception = "IndexError"
    /\ start_coords = <<0, -170>> /\ end_coords = <<0, 170>>
    /\ route.fallback
    /\ route.distance_miles = PiTimes([n |-> 3956, d |-> 9])

\* C30: a request handled by TripViewSet.create stores the new trip in at
\* most one of the two stores: the relational fallback is written only
\* when nothing was inserted into MongoDB for that request, also when the
\* MongoDB call fails or times out partway.
C30_AtMostOneStoreWritten ==
    response.op = "create" => Cardinality(written) <= 1

=============================================================================
